---- MODULE Spec2Model ----
(***************************************************************************)
(* Model of libgssapi's credential wrapper (src/libgssapi/src/credential.rs) *)
(* : Cred::acquire, the inquire protocol (info_c and its five projections), *)
(* Drop for Cred and the CredUsage code mapping.                            *)
(*                                                                         *)
(* Unsigned 32-bit words (OM_uint32) are kept at their width as a pair of   *)
(* 16-bit limbs <<hi, lo>>; 64-bit words as four limbs, most significant    *)
(* first.  A signed 32-bit value (gss_cred_usage_t) is an integer.          *)
(* Option<T> is <<>> for None and <<x>> for Some(x).                        *)
(***************************************************************************)
EXTENDS Integers, Sequences, FiniteSets, TLC

\* ---------------------------------------------------------------- bounds
MaxHandles == 3
MaxRel == 2
MaxCode == 60

\* ------------------------------------------------------- machine words
Limb == 65536
I32Max == 2147483647
I32Min == (0 - I32Max) - 1

None == <<>>
Some(x) == <<x>>
IsSome(o) == o # <<>>
Unwrap(o) == o[1]

U32Zero == <<0, 0>>

\* `x as u32` for x: u64 (credential.rs:101): the low 32 bits
U64AsU32(x) == <<x[3], x[4]>>

\* `x as u64` for x: u32 (credential.rs:188, 213)
U32AsU64(x) == <<0, 0, x[1], x[2]>>

\* `c as u32` for c: i32 (credential.rs:44): two's complement reinterpretation
I32AsU32(c) ==
    IF c >= 0
    THEN <<c \div Limb, c % Limb>>
    ELSE LET m == (c + I32Max) + 1
         IN  <<(m \div Limb) + (Limb \div 2), m % Limb>>

\* `u as gss_cred_usage_t` for u: u32 (credential.rs:117)
U32AsI32(u) ==
    IF u[1] < Limb \div 2
    THEN u[1] * Limb + u[2]
    ELSE (((u[1] - (Limb \div 2)) * Limb + u[2]) - I32Max) - 1

\* ------------------------------------------------- library constants
GSS_S_COMPLETE == <<0, 0>>
GSS_S_FAILURE == <<13, 0>>
GSS_C_BOTH == <<0, 0>>
GSS_C_INITIATE == <<0, 1>>
GSS_C_ACCEPT == <<0, 2>>
GSS_C_INDEFINITE == <<65535, 65535>>
NO_OID_SET == 0
NULL == 0

\* the calling-error and routine-error fields of a major status word are its
\* upper 16 bits; the supplementary bits are the lower 16
gss_error(major) == <<major[1], 0>>

\* ---------------------------------------------------------- CredUsage
CredUsage == {"Accept", "Initiate", "Both"}

Ok(v) == [ok |-> TRUE, val |-> v, err |-> None]
Err(major, minor) == [ok |-> FALSE, val |-> None, err |-> Some(<<major, minor>>)]

from_c_swapped(c) ==
    LET u == I32AsU32(c)
    IN  IF u = GSS_C_BOTH THEN Ok("Both")
        ELSE IF u = GSS_C_INITIATE THEN Ok("Accept")
        ELSE IF u = GSS_C_ACCEPT THEN Ok("Initiate")
        ELSE Err(GSS_S_FAILURE, U32Zero)

from_c_default(c) ==
    LET u == I32AsU32(c)
    IN  IF u = GSS_C_BOTH THEN Ok("Both")
        ELSE IF u = GSS_C_INITIATE THEN Ok("Initiate")
        ELSE Ok("Accept")

from_c(c) ==
    LET u == I32AsU32(c)
    IN  IF u = GSS_C_BOTH THEN Ok("Both")
        ELSE IF u = GSS_C_INITIATE THEN Ok("Initiate")
        ELSE IF u = GSS_C_ACCEPT THEN Ok("Accept")
        ELSE Err(GSS_S_FAILURE, U32Zero)

to_c_swapped(v) ==
    CASE v = "Both" -> GSS_C_BOTH
      [] v = "Initiate" -> GSS_C_ACCEPT
      [] v = "Accept" -> GSS_C_ACCEPT

to_c(v) ==
    CASE v = "Both" -> GSS_C_BOTH
      [] v = "Initiate" -> GSS_C_INITIATE
      [] v = "Accept" -> GSS_C_ACCEPT

\* ------------------------------------------------------------- inputs
\* status words the native library may report: complete, supplementary
\* information only, a routine error
MajorVals == {<<0, 0>>, <<0, 1>>, <<13, 0>>}
MinorVals == {<<0, 7>>}

\* std::time::Duration: whole seconds (u64) and a sub-second part
Duration(secs, nanos) == [secs |-> secs, nanos |-> nanos]
as_secs(d) == d.secs
from_secs(s) == Duration(s, 0)

DurationVals ==
    { Duration(<<0, 0, 0, 3600>>, 500000000),
      Duration(<<0, 0, 65535, 65535>>, 0),
      Duration(<<0, 1, 0, 3600>>, 0) }

FitsU32(s) == s[1] = 0 /\ s[2] = 0

LifetimeVals == {<<0, 3600>>, <<65535, 65535>>}
UsageCodeVals == {0, 1, 2, 3}

Handle == 1..MaxHandles

VARIABLES heap, nextH, cred, last, probe, stored, thr

vars == <<heap, nextH, cred, last, probe, stored, thr>>

\* ------------------------------------------------- native handle table
\* heap[h].kind : what the native library produced under handle h
\* heap[h].rel  : how many times a native release primitive was invoked on h
\* heap[h].own  : how many live wrapper values (Cred, Name, OidSet) hold h
\* heap[NULL].rel counts native release calls made on the null handle
NoHandle == [kind |-> "none", rel |-> 0, own |-> 0]

Alloc(hp, h, k) == IF h = NULL THEN hp ELSE [hp EXCEPT ![h] = [kind |-> k, rel |-> 0, own |-> 0]]
Adopt(hp, h) == IF h = NULL THEN hp ELSE [hp EXCEPT ![h].own = @ + 1]
Disown(hp, h) == IF h = NULL THEN hp ELSE [hp EXCEPT ![h].own = @ - 1]
NativeReleased(hp, h) == [hp EXCEPT ![h].rel = @ + 1]

\* Name and OidSet: owners of one native handle, released on drop, null-safe
Name_from_c(hp, n) == Adopt(hp, n)
Name_to_c(n) == n
Name_drop(hp, n) == IF n # NULL THEN NativeReleased(Disown(hp, n), n) ELSE hp
OidSet_from_c(hp, s) == Adopt(hp, s)
OidSet_to_c(s) == s
OidSet_drop(hp, s) == IF s # NULL THEN NativeReleased(Disown(hp, s), s) ELSE hp

HeldNames == {h \in Handle : heap[h].kind = "name" /\ heap[h].own > 0}
HeldOidSets == {h \in Handle : heap[h].kind = "mech" /\ heap[h].own > 0}

\* ------------------------------------------------------------ the state
FreeCred == [st |-> "free", h |-> NULL, h0 |-> NULL, nrel |-> 0]
NoOut == [cred |-> NULL, name |-> NULL, mech |-> NULL]
NoLast ==
    [op |-> "none", res |-> "none", err |-> None, native |-> None,
     nativeErr |-> FALSE, inp |-> None, args |-> None, handle |-> None,
     req |-> {}, fill |-> {}, out |-> NoOut, val |-> None, nrel |-> 0]
NoProbe == [op |-> "none", v |-> None, code |-> None, res |-> None]
Thread == {"t1", "t2"}
Idle == [pc |-> "idle"]

Init ==
    /\ heap = [h \in {NULL} \cup Handle |-> NoHandle]
    /\ nextH = 1
    /\ cred = FreeCred
    /\ last = NoLast
    /\ probe = NoProbe
    /\ stored = None
    /\ thr = [t \in Thread |-> Idle]

\* ------------------------------------------------------- Cred::acquire
AcquireTimeReqIgnored(time_req) == GSS_C_INDEFINITE

AcquireTimeReqZero(time_req) ==
    IF IsSome(time_req) THEN U64AsU32(as_secs(Unwrap(time_req))) ELSE U32Zero

\* credential.rs:101
AcquireTimeReq(time_req) ==
    IF IsSome(time_req) THEN U64AsU32(as_secs(Unwrap(time_req))) ELSE GSS_C_INDEFINITE

AcquireArgsWithMechs(name, time_req, usage, desired_mechs) ==
    [name |-> IF IsSome(name) THEN Name_to_c(Unwrap(name)) ELSE NULL,
     time_req |-> AcquireTimeReq(time_req),
     desired_mechs |-> IF IsSome(desired_mechs) THEN OidSet_to_c(Unwrap(desired_mechs)) ELSE NO_OID_SET,
     usage |-> U32AsI32(to_c(usage)),
     actual_mechs |-> 1,
     time_rec |-> NULL]

\* the arguments handed to gss_acquire_cred (credential.rs:106-121); the two
\* optional outputs are null pointers
AcquireArgs(name, time_req, usage, desired_mechs) ==
    [name |-> IF IsSome(name) THEN Name_to_c(Unwrap(name)) ELSE NULL,
     time_req |-> AcquireTimeReq(time_req),
     desired_mechs |-> IF IsSome(desired_mechs) THEN OidSet_to_c(Unwrap(desired_mechs)) ELSE NO_OID_SET,
     usage |-> U32AsI32(to_c(usage)),
     actual_mechs |-> NULL,
     time_rec |-> NULL]

\* gss_acquire_cred's credential output: populated only when the call did
\* not fail (no calling or routine error), with a handle never seen before
NativeAcquireCred(major, fresh) == IF gss_error(major) = U32Zero THEN fresh ELSE NULL

\* gss_acquire_cred's actual_mechs output: produced only through a non-null
\* pointer, by a call that did not fail
NativeAcquireMechs(args, major, fresh) ==
    IF args.actual_mechs # NULL /\ gss_error(major) = U32Zero THEN fresh ELSE NULL

AcquireResultNoMinor(major, minor, c) ==
    IF major = GSS_S_COMPLETE THEN Ok(c) ELSE Err(major, U32Zero)

\* credential.rs:123-130
AcquireResult(major, minor, c) ==
    IF major = GSS_S_COMPLETE THEN Ok(c) ELSE Err(major, minor)

AcquireCall(name, time_req, usage, desired_mechs, major, minor) ==
    /\ cred.st # "live"
    /\ nextH <= MaxHandles
    /\ LET args == AcquireArgs(name, time_req, usage, desired_mechs)
           c == NativeAcquireCred(major, nextH)
           am == NativeAcquireMechs(args, major, nextH + 1)
           r == AcquireResult(major, minor, c)
           hp == Alloc(Alloc(heap, c, "cred"), am, "mech")
       IN  /\ heap' = IF r.ok THEN Adopt(hp, c) ELSE hp
           /\ nextH' = nextH + (IF c # NULL THEN 1 ELSE 0) + (IF am # NULL THEN 1 ELSE 0)
           /\ cred' = IF r.ok
                      THEN [st |-> "live", h |-> c, h0 |-> c, nrel |-> 0]
                      ELSE cred
           /\ last' = [NoLast EXCEPT !.op = "acquire",
                          !.res = IF r.ok THEN "Ok" ELSE "Err",
                          !.err = r.err, !.native = Some(<<major, minor>>),
                          !.nativeErr = ~r.ok,
                          !.inp = Some([name |-> name, time_req |-> time_req,
                                        usage |-> usage, desired_mechs |-> desired_mechs]),
                          !.args = Some(args),
                          !.out = [NoOut EXCEPT !.cred = c, !.mech = am],
                          !.val = IF r.ok THEN Some(c) ELSE None]

Acquire(name, time_req, usage, desired_mechs, major, minor) ==
    /\ AcquireCall(name, time_req, usage, desired_mechs, major, minor)
    /\ UNCHANGED <<probe, stored, thr>>

\* Cred::from_c: adopt a handle produced elsewhere (or no handle at all)
FromC(isNull) ==
    /\ cred.st # "live"
    /\ isNull \/ nextH <= MaxHandles
    /\ LET c == IF isNull THEN NULL ELSE nextH
       IN  /\ heap' = Adopt(Alloc(heap, c, "cred"), c)
           /\ nextH' = IF isNull THEN nextH ELSE nextH + 1
           /\ cred' = [st |-> "live", h |-> c, h0 |-> c, nrel |-> 0]
           /\ last' = [NoLast EXCEPT !.op = "from_c", !.res = "Ok",
                          !.out = [NoOut EXCEPT !.cred = c], !.val = Some(c)]
    /\ UNCHANGED <<probe, stored, thr>>

\* ------------------------------------------------------- Drop for Cred
\* gss_release_cred on a non-null handle: on completion the library clears
\* the caller's handle; when it reports failure the handle may be left as is
NativeReleaseCred(h, major, cleared) ==
    IF gss_error(major) = U32Zero \/ cleared THEN NULL ELSE h

\* credential.rs:64-76
CredDrop(c, major, cleared) ==
    IF c.h # NULL
    THEN [c EXCEPT !.st = "dropped", !.h = NativeReleaseCred(c.h, major, cleared), !.nrel = @ + 1]
    ELSE [c EXCEPT !.st = "dropped"]

DropStep(major, cleared, wasLive) ==
    LET c == cred
        d == CredDrop(c, major, cleared)
        n == d.nrel - c.nrel
        hp == IF wasLive THEN Disown(heap, c.h) ELSE heap
    IN  /\ n > 0 => heap[c.h].rel < MaxRel
        /\ heap' = IF n > 0 THEN NativeReleased(hp, c.h) ELSE hp
        /\ cred' = d
        /\ last' = [NoLast EXCEPT !.op = "drop",
                       !.native = IF n > 0 THEN Some(<<major, U32Zero>>) ELSE None,
                       !.nrel = n]
        /\ UNCHANGED <<nextH, probe, stored, thr>>

\* the value goes out of scope
DropCred(major, cleared) ==
    /\ cred.st = "live"
    /\ DropStep(major, cleared, TRUE)

\* a second destruction trigger on a value already destroyed
DropCredAgain(major, cleared) ==
    /\ cred.st = "dropped"
    /\ DropStep(major, cleared, FALSE)

\* the caller drops a Name or an OidSet it was given
DropName(n) ==
    /\ n \in HeldNames
    /\ heap' = Name_drop(heap, n)
    /\ last' = [NoLast EXCEPT !.op = "drop_name", !.nrel = 1]
    /\ UNCHANGED <<nextH, cred, probe, stored, thr>>

DropOidSet(m) ==
    /\ m \in HeldOidSets
    /\ heap' = OidSet_drop(heap, m)
    /\ last' = [NoLast EXCEPT !.op = "drop_oidset", !.nrel = 1]
    /\ UNCHANGED <<nextH, cred, probe, stored, thr>>

\* ------------------------------------------------ the inquire protocol
\* CredInfoC (credential.rs:17-33): one optional slot per output
CredInfoC(n, l, u, m) == [name |-> n, lifetime |-> l, usage |-> u, mechanisms |-> m]
CredInfoC_empty == CredInfoC(None, None, None, None)

InfoReq == CredInfoC(Some(NULL), Some(U32Zero), Some(0), Some(NULL))
NameReq == [CredInfoC_empty EXCEPT !.name = Some(NULL)]
LifetimeReqWithName == [CredInfoC_empty EXCEPT !.lifetime = Some(U32Zero), !.name = Some(NULL)]
LifetimeReq == [CredInfoC_empty EXCEPT !.lifetime = Some(U32Zero)]
UsageReq == [CredInfoC_empty EXCEPT !.usage = Some(0)]
MechanismsReq == [CredInfoC_empty EXCEPT !.mechanisms = Some(NULL)]

InquireOps == {"info", "name", "lifetime", "usage", "mechanisms"}

Requested(ifo) == {f \in {"name", "lifetime", "usage", "mechanisms"} : IsSome(ifo[f])}

\* gss_inquire_cred: outputs are filled in program order (name, lifetime,
\* usage, mechanisms) through the non-null pointers only.  A call that does
\* not fail fills every requested output; a failing call has filled the
\* first k outputs.  Each handle it produces is a new one.
NativeInquireCred(ifo, major, k, lt, us, fresh) ==
    LET filled(i) == gss_error(major) = U32Zero \/ i <= k
        fn == IsSome(ifo.name) /\ filled(1)
        fm == IsSome(ifo.mechanisms) /\ filled(4)
        hn == IF fn THEN fresh ELSE NULL
        hm == IF fm THEN (IF fn THEN fresh + 1 ELSE fresh) ELSE NULL
    IN  [ifo |-> CredInfoC(IF fn THEN Some(hn) ELSE ifo.name,
                           IF IsSome(ifo.lifetime) /\ filled(2) THEN Some(lt) ELSE ifo.lifetime,
                           IF IsSome(ifo.usage) /\ filled(3) THEN Some(us) ELSE ifo.usage,
                           IF fm THEN Some(hm) ELSE ifo.mechanisms),
         out |-> [cred |-> NULL, name |-> hn, mech |-> hm],
         fill |-> {f \in Requested(ifo) :
                     \/ f = "name" /\ filled(1)
                     \/ f = "lifetime" /\ filled(2)
                     \/ f = "usage" /\ filled(3)
                     \/ f = "mechanisms" /\ filled(4)},
         next |-> fresh + (IF fn THEN 1 ELSE 0) + (IF fm THEN 1 ELSE 0)]

OwnedSlots(ifo) == (IF IsSome(ifo.name) THEN 1 ELSE 0) + (IF IsSome(ifo.mechanisms) THEN 1 ELSE 0)

\* the cleanup of credential.rs:164-170: each requested owned slot is
\* wrapped, and the wrapper dropped at once
info_c_cleanup_leaky(hp, ifo) ==
    LET h1 == IF IsSome(ifo.mechanisms)
              THEN OidSet_drop(OidSet_from_c(hp, Unwrap(ifo.mechanisms)), Unwrap(ifo.mechanisms))
              ELSE hp
    IN  h1

info_c_cleanup(hp, ifo) ==
    LET h1 == IF IsSome(ifo.name)
              THEN Name_drop(Name_from_c(hp, Unwrap(ifo.name)), Unwrap(ifo.name))
              ELSE hp
        h2 == IF IsSome(ifo.mechanisms)
              THEN OidSet_drop(OidSet_from_c(h1, Unwrap(ifo.mechanisms)), Unwrap(ifo.mechanisms))
              ELSE h1
    IN  h2

\* credential.rs:141-175, applied to the request as the native call left it
info_c_unchecked(hp, ifo, major, minor) ==
    [ok |-> TRUE, ifo |-> ifo, err |-> None, heap |-> hp]

info_c(hp, ifo, major, minor) ==
    IF gss_error(major) # U32Zero
    THEN [ok |-> FALSE, ifo |-> ifo, err |-> Some(<<major, minor>>), heap |-> info_c_cleanup(hp, ifo)]
    ELSE [ok |-> TRUE, ifo |-> ifo, err |-> None, heap |-> hp]

\* what each projection builds from the Ok(ifo) of info_c
\* credential.rs:186-191: the fields are evaluated in order; when the usage
\* code does not decode, the Name built so far is dropped and the function
\* returns without ever wrapping c.mechanisms
info_build(hp, c) ==
    LET n == Unwrap(c.name)
        h1 == Name_from_c(hp, n)
        lifetime == from_secs(U32AsU64(Unwrap(c.lifetime)))
        u == from_c(Unwrap(c.usage))
    IN  IF ~u.ok
        THEN [ok |-> FALSE, val |-> None, err |-> u.err, heap |-> Name_drop(h1, n)]
        ELSE [ok |-> TRUE,
              val |-> Some([name |-> n, lifetime |-> lifetime, usage |-> u.val,
                            mechanisms |-> Unwrap(c.mechanisms)]),
              err |-> None,
              heap |-> OidSet_from_c(h1, Unwrap(c.mechanisms))]

\* credential.rs:202
name_build(hp, c) ==
    [ok |-> TRUE, val |-> Some(Unwrap(c.name)), err |-> None,
     heap |-> Name_from_c(hp, Unwrap(c.name))]

\* credential.rs:213
lifetime_build(hp, c) ==
    [ok |-> TRUE, val |-> Some(from_secs(U32AsU64(Unwrap(c.lifetime)))), err |-> None, heap |-> hp]

\* credential.rs:224
usage_build(hp, c) ==
    LET u == from_c(Unwrap(c.usage))
    IN  [ok |-> u.ok, val |-> IF u.ok THEN Some(u.val) ELSE None, err |-> u.err, heap |-> hp]

\* credential.rs:235
mechanisms_build(hp, c) ==
    [ok |-> TRUE, val |-> Some(Unwrap(c.mechanisms)), err |-> None,
     heap |-> OidSet_from_c(hp, Unwrap(c.mechanisms))]

Build(op, hp, c) ==
    CASE op = "info" -> info_build(hp, c)
      [] op = "name" -> name_build(hp, c)
      [] op = "lifetime" -> lifetime_build(hp, c)
      [] op = "usage" -> usage_build(hp, c)
      [] op = "mechanisms" -> mechanisms_build(hp, c)

\* one projection call: the request, the native call, info_c, the build
InquireCall(op, req, major, minor, k, lt, us) ==
    /\ cred.st = "live"
    /\ nextH + OwnedSlots(req) <= MaxHandles + 1
    /\ LET nat == NativeInquireCred(req, major, k, lt, us, nextH)
           hp0 == Alloc(Alloc(heap, nat.out.name, "name"), nat.out.mech, "mech")
           c == info_c(hp0, nat.ifo, major, minor)
           r == IF c.ok THEN Build(op, c.heap, c.ifo)
                ELSE [ok |-> FALSE, val |-> None, err |-> c.err, heap |-> c.heap]
       IN  /\ heap' = r.heap
           /\ nextH' = nat.next
           /\ last' = [NoLast EXCEPT !.op = op,
                          !.res = IF r.ok THEN "Ok" ELSE "Err",
                          !.err = r.err, !.native = Some(<<major, minor>>),
                          !.nativeErr = ~c.ok,
                          !.handle = Some(cred.h),
                          !.req = Requested(req), !.fill = nat.fill,
                          !.out = nat.out, !.val = r.val]
    /\ UNCHANGED cred

Inquire(op, req, major, minor, k, lt, us) ==
    /\ InquireCall(op, req, major, minor, k, lt, us)
    /\ UNCHANGED <<probe, stored, thr>>

Info(major, minor, k, lt, us) == Inquire("info", InfoReq, major, minor, k, lt, us)
GetName(major, minor, k) == Inquire("name", NameReq, major, minor, k, U32Zero, 0)
Lifetime(major, minor, k, lt) == Inquire("lifetime", LifetimeReq, major, minor, k, lt, 0)
Usage(major, minor, k, us) == Inquire("usage", UsageReq, major, minor, k, U32Zero, us)
Mechanisms(major, minor, k) == Inquire("mechanisms", MechanismsReq, major, minor, k, U32Zero, 0)

\* ------------------------------------------- the usage code mapping
\* CredUsage::to_c followed by the cast to gss_cred_usage_t (credential.rs:103, 117)
Encode(v) ==
    /\ probe' = [op |-> "to_c", v |-> Some(v), code |-> Some(U32AsI32(to_c(v))), res |-> None]
    /\ UNCHANGED <<heap, nextH, cred, last, stored, thr>>

\* CredUsage::from_c applied to the code just produced
Decode ==
    /\ probe.op = "to_c"
    /\ probe' = [probe EXCEPT !.op = "from_c", !.res = Some(from_c(Unwrap(probe.code)))]
    /\ UNCHANGED <<heap, nextH, cred, last, stored, thr>>

\* CredUsage::from_c applied to a code the native library returned
DecodeRaw(c) ==
    /\ probe' = [op |-> "from_c", v |-> None, code |-> Some(c), res |-> Some(from_c(c))]
    /\ UNCHANGED <<heap, nextH, cred, last, stored, thr>>

CodeVals == ((0 - MaxCode)..MaxCode) \cup {I32Min, I32Max}

NextCodec ==
    \/ \E v \in CredUsage : Encode(v)
    \/ Decode
    \/ \E c \in CodeVals : DecodeRaw(c)

SpecCodec == Init /\ [][NextCodec]_vars

\* ------------------------------------------------------ specifications
\* status pairs of one native call: the minor status is meaningful only
\* next to a major status other than complete
StatusVals ==
    {<<GSS_S_COMPLETE, U32Zero>>}
    \cup {<<major, minor>> : major \in MajorVals \ {GSS_S_COMPLETE}, minor \in MinorVals}
Failed == {st \in StatusVals : gss_error(st[1]) # U32Zero}
NotFailed == {st \in StatusVals : gss_error(st[1]) = U32Zero}

\* how many of the four outputs a failing inquire call had filled
Filled == 0..4

\* ----------------------- a native library that remembers the usage code
\* acquire(None, None, usage, None) against a library that accepts the
\* defaults and stores the usage code it is given with the credential
AcquireStored(usage) ==
    /\ AcquireCall(None, None, usage, None, GSS_S_COMPLETE, U32Zero)
    /\ stored' = Some([code |-> AcquireArgs(None, None, usage, None).usage, asked |-> usage])
    /\ UNCHANGED <<probe, thr>>

\* usage() and info() against that library: the inquire call does not
\* fail and writes the stored code to the usage output
UsageStored(major, minor) ==
    /\ IsSome(stored)
    /\ InquireCall("usage", UsageReq, major, minor, 4, U32Zero, Unwrap(stored).code)
    /\ UNCHANGED <<probe, stored, thr>>

InfoStored(major, minor, lt) ==
    /\ IsSome(stored)
    /\ InquireCall("info", InfoReq, major, minor, 4, lt, Unwrap(stored).code)
    /\ UNCHANGED <<probe, stored, thr>>

\* -------------------------------------- one Cred shared by two threads
\* a call in progress on thread t: the request it passed by value to
\* info_c, as the native call left it, and the status that call reported
Frame(op, nat, major, minor) ==
    [pc |-> "called", op |-> op, ifo |-> nat.ifo, major |-> major, minor |-> minor,
     out |-> nat.out, handle |-> cred.h]

ThreadFrameShared(t) == thr[CHOOSE u \in Thread : thr[u].pc = "called"]

\* credential.rs:141: ifo is a by-value parameter, private to the call
ThreadFrame(t) == thr[t]

\* thread t enters a projection and info_c makes the native call
\* (credential.rs:142-162) on the shared handle
CallStep(t, op, req, major, minor, k, lt, us) ==
    /\ cred.st = "live"
    /\ thr[t].pc = "idle"
    /\ nextH + OwnedSlots(req) <= MaxHandles + 1
    /\ LET nat == NativeInquireCred(req, major, k, lt, us, nextH)
       IN  /\ heap' = Alloc(Alloc(heap, nat.out.name, "name"), nat.out.mech, "mech")
           /\ nextH' = nat.next
           /\ thr' = [thr EXCEPT ![t] = Frame(op, nat, major, minor)]
    /\ UNCHANGED <<cred, last, probe, stored>>

\* thread t finishes the call: the status test and cleanup of info_c
\* (credential.rs:163-174) and the projection's build
ReturnStep(t) ==
    /\ thr[t].pc = "called"
    /\ LET f == ThreadFrame(t)
           c == info_c(heap, f.ifo, f.major, f.minor)
           r == IF c.ok THEN Build(f.op, c.heap, c.ifo)
                ELSE [ok |-> FALSE, val |-> None, err |-> c.err, heap |-> c.heap]
       IN  /\ heap' = r.heap
           /\ thr' = [thr EXCEPT ![t] = Idle]
    /\ UNCHANGED <<nextH, cred, last, probe, stored>>

ReqOf(op) ==
    CASE op = "info" -> InfoReq
      [] op = "name" -> NameReq
      [] op = "lifetime" -> LifetimeReq
      [] op = "usage" -> UsageReq
      [] op = "mechanisms" -> MechanismsReq

OptNames == {None} \cup {Some(n) : n \in HeldNames}
OptOidSets == {None} \cup {Some(m) : m \in HeldOidSets}
OptDurations == {None} \cup {Some(d) : d \in DurationVals}

\* outcomes of one native release call: its status, and whether it cleared
\* the caller's handle
ReleaseOutcomes ==
    {[major |-> major, cleared |-> cleared] :
        major \in MajorVals, cleared \in BOOLEAN} \ {[major |-> GSS_S_COMPLETE, cleared |-> FALSE]}

Next ==
    \/ \E n \in OptNames, t \in OptDurations, u \in CredUsage, m \in OptOidSets,
          st \in StatusVals : Acquire(n, t, u, m, st[1], st[2])
    \/ \E isNull \in BOOLEAN : FromC(isNull)
    \/ \E st \in NotFailed, lt \in LifetimeVals, us \in UsageCodeVals : Info(st[1], st[2], 4, lt, us)
    \/ \E st \in Failed, k \in Filled : Info(st[1], st[2], k, U32Zero, 0)
    \/ \E st \in NotFailed : GetName(st[1], st[2], 4)
    \/ \E st \in Failed, k \in Filled : GetName(st[1], st[2], k)
    \/ \E st \in NotFailed, lt \in LifetimeVals : Lifetime(st[1], st[2], 4, lt)
    \/ \E st \in Failed, k \in Filled : Lifetime(st[1], st[2], k, U32Zero)
    \/ \E st \in NotFailed, us \in UsageCodeVals : Usage(st[1], st[2], 4, us)
    \/ \E st \in Failed, k \in Filled : Usage(st[1], st[2], k, 0)
    \/ \E st \in NotFailed : Mechanisms(st[1], st[2], 4)
    \/ \E st \in Failed, k \in Filled : Mechanisms(st[1], st[2], k)
    \/ \E o \in ReleaseOutcomes : DropCred(o.major, o.cleared)
    \/ \E n \in Handle : DropName(n)
    \/ \E m \in Handle : DropOidSet(m)

Spec == Init /\ [][Next]_vars

\* the same program, where a value may be destroyed a second time
NextRedrop ==
    \/ Next
    \/ \E o \in ReleaseOutcomes : DropCredAgain(o.major, o.cleared)

SpecRedrop == Init /\ [][NextRedrop]_vars

\* the program against the library that remembers the usage code
NextStored ==
    \/ \E u \in CredUsage : AcquireStored(u)
    \/ \E st \in NotFailed : UsageStored(st[1], st[2])
    \/ \E st \in NotFailed, lt \in LifetimeVals : InfoStored(st[1], st[2], lt)
    \/ \E o \in ReleaseOutcomes : DropCred(o.major, o.cleared)
    \/ \E n \in Handle : DropName(n)
    \/ \E m \in Handle : DropOidSet(m)

SpecStored == Init /\ [][NextStored]_vars

\* two threads calling the projections of one shared Cred
NextShared ==
    \/ \E isNull \in BOOLEAN : FromC(isNull)
    \/ \E t \in Thread, op \in InquireOps, us \in {1, 3} :
          CallStep(t, op, ReqOf(op), GSS_S_COMPLETE, U32Zero, 4, <<0, 3600>>, us)
    \/ \E t \in Thread, op \in InquireOps, st \in Failed, k \in Filled :
          CallStep(t, op, ReqOf(op), st[1], st[2], k, U32Zero, 0)
    \/ \E t \in Thread : ReturnStep(t)

SpecShared == Init /\ [][NextShared]_vars

TypeOK ==
    /\ nextH \in 1..(MaxHandles + 1)
    /\ \A h \in Handle : heap[h].kind \in {"none", "cred", "name", "mech"}
    /\ \A h \in Handle : h >= nextH <=> heap[h].kind = "none"
    /\ cred.st \in {"free", "live", "dropped"}

\* --------------------------------------------------------------- claims
Produced(o) == {o.cred, o.name, o.mech} \ {NULL}
LastInp == Unwrap(last.inp)
LastArgs == Unwrap(last.args)
U32MaxAsU64 == <<0, 0, 65535, 65535>>

\* C1: when the native inquire call behind info, name, lifetime, usage or
\* mechanisms reports an error status, the operation returns an error that
\* carries no handle, every name or mechanism-set handle the call produced
\* has been released exactly once and is held by no wrapper, and no native
\* release was made on a null (never filled) slot.
C1_InquireErrorReleasesOwnedSlots ==
    (last.op \in InquireOps /\ last.nativeErr) =>
        /\ last.res = "Err"
        /\ last.val = None
        /\ \A h \in Produced(last.out) : heap[h].rel = 1 /\ heap[h].own = 0
        /\ heap[NULL].rel = 0

C1_Witness ==
    /\ last.op = "info" /\ last.nativeErr /\ last.res = "Err"
    /\ last.out.name # NULL /\ last.out.mech = NULL
    /\ heap[last.out.name].rel = 1

\* C2: when info()'s native call succeeds but the usage code does not
\* decode, info() returns an error and both the name handle and the
\* mechanism-set handle that call produced are released exactly once.
C2_DecodeFailureReleasesBoth ==
    (last.op = "info" /\ last.res = "Err" /\ ~last.nativeErr) =>
        \A h \in Produced(last.out) : heap[h].rel = 1 /\ heap[h].own = 0

\* C3: every handle the native library produced is either held by exactly
\* one live wrapper and not released, or held by none and released exactly
\* once.
C3_OwnedOrReleasedOnce ==
    \A h \in Handle :
        heap[h].kind # "none" =>
            \/ heap[h].own = 1 /\ heap[h].rel = 0
            \/ heap[h].own = 0 /\ heap[h].rel = 1

\* C4: once a Cred has been destroyed its handle is null, and over all the
\* destruction triggers on that value the native release was invoked once
\* if the handle was non-null at construction and never if it was null,
\* whatever status the release reported.
C4_DropReleasesExactlyOnce ==
    cred.st = "dropped" =>
        /\ cred.h = NULL
        /\ cred.nrel = (IF cred.h0 # NULL THEN 1 ELSE 0)

\* C5: whenever acquire returns an error, no credential handle produced by
\* that call is left unreleased.
C5_AcquireErrorLeavesNoCredential ==
    (last.op = "acquire" /\ last.res = "Err") =>
        \A h \in Produced(last.out) : heap[h].rel = 1

\* C6: acquire and the inquire operations turn a native status into an
\* error exactly when the is-error predicate holds for it.
C6_ErrorIffIsErrorPredicate ==
    (last.op \in InquireOps \cup {"acquire"}) =>
        (last.nativeErr <=> gss_error(Unwrap(last.native)[1]) # U32Zero)

\* C7: an explicit duration whose whole seconds exceed the unsigned 32-bit
\* range is rejected before the native call, or clamped to the largest
\* 32-bit value; it is never passed on reduced modulo 2^32.
C7_NoSilentTruncation ==
    (last.op = "acquire" /\ IsSome(LastInp.time_req)
        /\ ~FitsU32(as_secs(Unwrap(LastInp.time_req)))) =>
        \/ last.args = None /\ last.res = "Err"
        \/ LastArgs.time_req = <<65535, 65535>>

\* C8: acquire passes the indefinite sentinel for an absent lifetime, the
\* "no OID set" sentinel for absent mechanisms and the null name for an
\* absent name; a supplied name or mechanism set is passed as its own raw
\* handle.
C8_AbsentInputsAsSentinels ==
    last.op = "acquire" =>
        /\ LastInp.time_req = None => LastArgs.time_req = GSS_C_INDEFINITE
        /\ LastInp.desired_mechs = None => LastArgs.desired_mechs = NO_OID_SET
        /\ LastInp.name = None => LastArgs.name = NULL
        /\ IsSome(LastInp.name) =>
               LastArgs.name = Unwrap(LastInp.name) /\ heap[LastArgs.name].kind = "name"
        /\ IsSome(LastInp.desired_mechs) =>
               LastArgs.desired_mechs = Unwrap(LastInp.desired_mechs)
               /\ heap[LastArgs.desired_mechs].kind = "mech"

C8_Witness ==
    /\ last.op = "acquire"
    /\ LastInp.time_req = None /\ LastInp.desired_mechs = None /\ LastInp.name = None
    /\ LastArgs.time_req = <<65535, 65535>>

\* C9 as stated: an explicit duration whose whole seconds s fit 32 unsigned
\* bits is passed as exactly s, and an explicit duration is never passed as
\* the indefinite sentinel.
C9_ExactAndNeverSentinel ==
    (last.op = "acquire" /\ IsSome(LastInp.time_req)) =>
        /\ FitsU32(as_secs(Unwrap(LastInp.time_req))) =>
               U32AsU64(LastArgs.time_req) = as_secs(Unwrap(LastInp.time_req))
        /\ LastArgs.time_req # GSS_C_INDEFINITE

\* C9 as amended: an explicit duration whose whole seconds s fit 32 unsigned
\* bits is passed as exactly s, the sub-second part discarded; it is passed
\* as the indefinite sentinel only when s is 2^32 - 1, the sentinel's own
\* value.
C9_ExactWhenRepresentable ==
    (last.op = "acquire" /\ IsSome(LastInp.time_req)
        /\ FitsU32(as_secs(Unwrap(LastInp.time_req)))) =>
        /\ U32AsU64(LastArgs.time_req) = as_secs(Unwrap(LastInp.time_req))
        /\ as_secs(Unwrap(LastInp.time_req)) # U32MaxAsU64 =>
               LastArgs.time_req # GSS_C_INDEFINITE

C9_Witness ==
    /\ last.op = "acquire"
    /\ LastInp.time_req = Some(Duration(<<0, 0, 0, 3600>>, 500000000))
    /\ LastArgs.time_req = <<0, 3600>>

\* C10: decoding the code that a usage variant encodes to gives back that
\* variant, and the three variants encode to pairwise distinct codes.
C10_UsageRoundTrip ==
    /\ (probe.op = "from_c" /\ IsSome(probe.v)) => Unwrap(probe.res) = Ok(Unwrap(probe.v))
    /\ probe.op = "to_c" =>
           \A w \in CredUsage \ {Unwrap(probe.v)} : U32AsI32(to_c(w)) # Unwrap(probe.code)

C10_Witness ==
    /\ probe.op = "from_c"
    /\ probe.v = Some("Accept")
    /\ probe.code = Some(2)
    /\ Unwrap(probe.res).ok

\* C11: decoding a signed 32-bit code other than the three recognized
\* usage codes, negative ones included, gives the decode error (generic
\* failure status, minor 0) and never a usage variant.
C11_UnknownCodeIsDecodeError ==
    (probe.op = "from_c"
        /\ Unwrap(probe.code) \notin {U32AsI32(GSS_C_BOTH), U32AsI32(GSS_C_INITIATE), U32AsI32(GSS_C_ACCEPT)}) =>
        /\ ~Unwrap(probe.res).ok
        /\ Unwrap(probe.res).val = None
        /\ Unwrap(probe.res).err = Some(<<GSS_S_FAILURE, U32Zero>>)

C11_Witness ==
    /\ probe.op = "from_c"
    /\ probe.code = Some(I32Min)
    /\ Unwrap(probe.res).err = Some(<<<<13, 0>>, <<0, 0>>>>)

\* C12: on a Cred that adopted a null handle, info, name, lifetime, usage
\* and mechanisms return an error without handing the null handle to the
\* native inquire call, and dropping it invokes no native release.
C12_NullCredFailsGracefully ==
    /\ (last.op \in InquireOps /\ last.handle = Some(NULL)) =>
           last.res = "Err" /\ last.native = None
    /\ (last.op = "drop" /\ cred.h0 = NULL) => last.nrel = 0 /\ heap[NULL].rel = 0

\* C15: an error returned because the native call failed carries exactly
\* the major status word and the minor status that call reported.
C15_ErrorCarriesNativeStatus ==
    last.nativeErr =>
        /\ last.res = "Err"
        /\ last.val = None
        /\ last.err = last.native

C15_Witness ==
    /\ last.op = "info" /\ last.nativeErr
    /\ last.native = Some(<<<<13, 0>>, <<0, 7>>>>)
    /\ last.err = Some(<<<<13, 0>>, <<0, 7>>>>)

\* C16: each projection passes a non-null output slot exactly for the
\* fields it returns (info all four, name, lifetime, usage and mechanisms
\* their own one), the native call writes through no other slot, and
\* lifetime() and usage() produce and return no name or mechanism-set
\* handle.
ExpectedReq(op) ==
    CASE op = "info" -> {"name", "lifetime", "usage", "mechanisms"}
      [] op = "name" -> {"name"}
      [] op = "lifetime" -> {"lifetime"}
      [] op = "usage" -> {"usage"}
      [] op = "mechanisms" -> {"mechanisms"}

C16_RequestsOnlyOwnSlots ==
    last.op \in InquireOps =>
        /\ last.req = ExpectedReq(last.op)
        /\ last.fill \subseteq ExpectedReq(last.op)
        /\ last.op \in {"lifetime", "usage"} =>
               /\ Produced(last.out) = {}
               /\ (last.op = "lifetime" /\ IsSome(last.val)) =>
                      Unwrap(last.val) \in {from_secs(U32AsU64(l)) : l \in LifetimeVals}
               /\ (last.op = "usage" /\ IsSome(last.val)) => Unwrap(last.val) \in CredUsage

C16_Witness ==
    /\ last.op = "lifetime" /\ last.res = "Ok"
    /\ last.req = {"lifetime"} /\ last.fill = {"lifetime"}
    /\ \E h \in Handle : heap[h].kind = "name" /\ heap[h].own = 1

\* C17: a projection returns Ok only when the native call was treated as
\* successful and filled every requested slot (and, for info and usage, the
\* usage code decoded); the handles it returns are the non-null ones that
\* call produced, each now held by one wrapper; otherwise it returns an
\* error and no value.
C17_OkOnlyFromFilledSlots ==
    last.op \in InquireOps =>
        /\ last.res = "Ok" =>
               /\ gss_error(Unwrap(last.native)[1]) = U32Zero
               /\ last.req \subseteq last.fill
               /\ IsSome(last.val)
               /\ last.op = "info" =>
                      /\ Unwrap(last.val).name = last.out.name
                      /\ Unwrap(last.val).mechanisms = last.out.mech
                      /\ Unwrap(last.val).usage \in CredUsage
                      /\ Unwrap(last.val).lifetime.secs \in {U32AsU64(l) : l \in LifetimeVals}
               /\ last.op = "name" => Unwrap(last.val) = last.out.name
               /\ last.op = "mechanisms" => Unwrap(last.val) = last.out.mech
               /\ last.op = "usage" => Unwrap(last.val) \in CredUsage
               /\ last.op = "lifetime" =>
                      Unwrap(last.val).secs \in {U32AsU64(l) : l \in LifetimeVals}
               /\ "name" \in last.req =>
                      last.out.name # NULL /\ heap[last.out.name].kind = "name"
                      /\ heap[last.out.name].own = 1 /\ heap[last.out.name].rel = 0
               /\ "mechanisms" \in last.req =>
                      last.out.mech # NULL /\ heap[last.out.mech].kind = "mech"
                      /\ heap[last.out.mech].own = 1 /\ heap[last.out.mech].rel = 0
        /\ last.res = "Err" => last.val = None

C17_Witness ==
    /\ last.op = "info" /\ last.res = "Ok"
    /\ last.fill = {"name", "lifetime", "usage", "mechanisms"}
    /\ Unwrap(last.val).name # NULL /\ Unwrap(last.val).mechanisms # NULL
    /\ Unwrap(last.val).usage = "Initiate"

\* C18: acquire passes null pointers for the two optional outputs, the
\* native call produces no handle other than the credential, and a Name or
\* OidSet passed by reference is still held by the caller, unreleased,
\* after acquire returns Ok or Err.
C18_AcquireOnlyBorrows ==
    last.op = "acquire" =>
        /\ LastArgs.actual_mechs = NULL /\ LastArgs.time_rec = NULL
        /\ Produced(last.out) \subseteq {last.out.cred}
        /\ last.out.name = NULL /\ last.out.mech = NULL
        /\ IsSome(LastInp.name) =>
               heap[Unwrap(LastInp.name)] = [kind |-> "name", rel |-> 0, own |-> 1]
        /\ IsSome(LastInp.desired_mechs) =>
               heap[Unwrap(LastInp.desired_mechs)] = [kind |-> "mech", rel |-> 0, own |-> 1]

C18_Witness ==
    /\ last.op = "acquire" /\ last.res = "Err"
    /\ IsSome(LastInp.name)
    /\ Unwrap(LastInp.name) \in HeldNames

\* C14: after acquire(None, None, u, None) succeeds against a library that
\* stores the usage code it was given, usage() and info() succeed and
\* report u.
C14_UsageReportsAcquiredUsage ==
    (IsSome(stored) /\ last.op \in {"usage", "info"}) =>
        /\ last.res = "Ok"
        /\ last.op = "usage" => Unwrap(last.val) = Unwrap(stored).asked
        /\ last.op = "info" => Unwrap(last.val).usage = Unwrap(stored).asked

C14_Witness ==
    /\ IsSome(stored) /\ Unwrap(stored).asked = "Accept"
    /\ last.op = "info" /\ last.res = "Ok"
    /\ Unwrap(last.val).usage = "Accept"

\* C13: while two threads call the projections of one shared Cred, no step
\* changes the Cred or its handle, calls in progress hold disjoint sets of
\* produced handles, and the only handles a returning call wraps or
\* releases are the ones the native library produced for that call.
InFlight(t) == IF thr[t].pc = "called" THEN Produced(thr[t].out) ELSE {}

C13_Step ==
    /\ cred.st = "live" => cred' = cred
    /\ \A t \in Thread : thr[t].pc = "called" => thr[t].handle = cred.h
    /\ \A t \in Thread : \A u \in Thread \ {t} : InFlight(t) \cap InFlight(u) = {}
    /\ \A h \in Handle :
           (heap[h].kind # "none" /\ heap'[h] # heap[h]) =>
               /\ heap[h].kind # "cred"
               /\ \E t \in Thread :
                      thr[t].pc = "called" /\ thr'[t].pc = "idle" /\ h \in InFlight(t)

C13_SharedCallsIsolated == [][C13_Step]_vars

C13_Witness ==
    /\ thr["t1"].pc = "idle" /\ thr["t2"].pc = "called"
    /\ thr["t2"].out.name # NULL
    /\ heap[thr["t2"].out.name] = [kind |-> "name", rel |-> 0, own |-> 0]
    /\ \E h \in Handle : heap[h].kind = "mech" /\ heap[h].own = 1

====
